---- MODULE Spec2Model ----
(***************************************************************************)
(* RCLOC: line classification (FileAnalyzer::classify_line), per-file      *)
(* counting (FileAnalyzer::analyze_file), the parallel aggregation         *)
(* (analyze_files), the addition of FileStats and the collection of the    *)
(* files (main, collect_files, should_skip_path) of src/main.rs.           *)
(*                                                                         *)
(* A string is a sequence of one-character strings; positions returned by  *)
(* Find are 0-based byte offsets as in str::find, None is -1.              *)
(***************************************************************************)
EXTENDS Integers, Sequences, FiniteSets, TLC

\* ------------------------------------------------------------------ bounds
\* a generated line is the concatenation of at most MaxChunks chunks
MaxChunks == 3
\* a file analysed line by line has at most MaxLines lines
MaxLines == 2
\* analyze_files is given at most MaxFiles files
MaxFiles == 3
\* the thread pool has at most MaxWorkers threads
MaxWorkers == 2
\* the counters of the FileStats values handed to Add are at most MaxCount
MaxCount == 1
\* the directory tree that is walked holds at most MaxEntries files
MaxEntries == 3

\* ------------------------------------------------------- string primitives
None == -1

\* char::is_whitespace, restricted to the characters used in the lines
WS == {" "}

Min(S) == CHOOSE x \in S : \A y \in S : x <= y

\* true when needle occurs in hay at 0-based offset p
StartsAt(hay, needle, p) ==
    /\ p + Len(needle) <= Len(hay)
    /\ \A k \in 1..Len(needle) : hay[p + k] = needle[k]

\* str::find: offset of the first occurrence, or None
Find(hay, needle) ==
    LET ps == {p \in 0..Len(hay) : StartsAt(hay, needle, p)}
    IN  IF ps = {} THEN None ELSE Min(ps)

\* &s[n..]
From(s, n) == SubSeq(s, n + 1, Len(s))

\* &s[..n]
UpTo(s, n) == SubSeq(s, 1, n)

RECURSIVE TrimStart(_)
TrimStart(s) == IF s # <<>> /\ Head(s) \in WS THEN TrimStart(Tail(s)) ELSE s

RECURSIVE TrimEnd(_)
TrimEnd(s) ==
    IF s # <<>> /\ s[Len(s)] \in WS THEN TrimEnd(SubSeq(s, 1, Len(s) - 1)) ELSE s

\* str::trim
Trim(s) == TrimEnd(TrimStart(s))

\* s.trim().is_empty()
TrimIsEmpty(s) == Trim(s) = <<>>

RECURSIVE Concat(_)
Concat(ss) == IF ss = <<>> THEN <<>> ELSE Head(ss) \o Concat(Tail(ss))

\* ---------------------------------------------------- language profiles
LanguageConfig(n, lc, bs, be) ==
    [name |-> n, line_comment |-> lc,
     block_comment_start |-> bs, block_comment_end |-> be]

SlashSlash == <<"/", "/">>
SlashStar == <<"/", "*">>
StarSlash == <<"*", "/">>
Hash == <<"#">>
DQ3 == <<"\"", "\"", "\"">>
SQ3 == <<"'", "'", "'">>
AngleHash == <<"<", "#">>
HashAngle == <<"#", ">">>
HtmlOpen == <<"<", "!", "-", "-">>
HtmlClose == <<"-", "-", ">">>
DashDash == <<"-", "-">>
RubyBegin == <<"=", "b", "e", "g", "i", "n">>
RubyEnd == <<"=", "e", "n", "d">>

\* add_languages: the table of the registry.  Languages whose token lists
\* are the same differ only by name and extensions.
Rust == LanguageConfig("Rust", <<SlashSlash>>, <<SlashStar>>, <<StarSlash>>)
CCpp == LanguageConfig("C/C++", <<SlashSlash>>, <<SlashStar>>, <<StarSlash>>)
Python == LanguageConfig("Python", <<Hash>>, <<DQ3, SQ3>>, <<DQ3, SQ3>>)
JavaScript ==
    LanguageConfig("JavaScript", <<SlashSlash>>, <<SlashStar>>, <<StarSlash>>)
TypeScript ==
    LanguageConfig("TypeScript", <<SlashSlash>>, <<SlashStar>>, <<StarSlash>>)
Java == LanguageConfig("Java", <<SlashSlash>>, <<SlashStar>>, <<StarSlash>>)
CSharp == LanguageConfig("C#", <<SlashSlash>>, <<SlashStar>>, <<StarSlash>>)
Go == LanguageConfig("Go", <<SlashSlash>>, <<SlashStar>>, <<StarSlash>>)
Shell == LanguageConfig("Shell", <<Hash>>, <<>>, <<>>)
PowerShell ==
    LanguageConfig("PowerShell", <<Hash>>, <<AngleHash>>, <<HashAngle>>)
HTML == LanguageConfig("HTML", <<>>, <<HtmlOpen>>, <<HtmlClose>>)
CSS == LanguageConfig("CSS", <<>>, <<SlashStar>>, <<StarSlash>>)
SQL == LanguageConfig("SQL", <<DashDash>>, <<SlashStar>>, <<StarSlash>>)
Ruby == LanguageConfig("Ruby", <<Hash>>, <<RubyBegin>>, <<RubyEnd>>)
PHP == LanguageConfig("PHP", <<SlashSlash, Hash>>, <<SlashStar>>, <<StarSlash>>)
YAML == LanguageConfig("YAML", <<Hash>>, <<>>, <<>>)
JSON == LanguageConfig("JSON", <<>>, <<>>, <<>>)
Markdown == LanguageConfig("Markdown", <<>>, <<HtmlOpen>>, <<HtmlClose>>)

\* LanguageDatabase.languages
Languages ==
    {Rust, CCpp, Python, JavaScript, TypeScript, Java, CSharp, Go, Shell,
     PowerShell, HTML, CSS, SQL, Ruby, PHP, YAML, JSON, Markdown}

\* one language for each distinct combination of token lists in the table
Profiles == {Rust, Python, Shell, PowerShell, HTML, CSS, SQL, Ruby, PHP, JSON}

\* A LanguageConfig that is not in the table: its line-comment token is a
\* prefix of its block-comment start, so both can match at one offset.
HashBar == <<"#", "|">>
BarHash == <<"|", "#">>
PrefixProfile == LanguageConfig("Prefix", <<Hash>>, <<HashBar>>, <<BarHash>>)

\* the tokens of a profile
RECURSIVE Range(_)
Range(s) == IF s = <<>> THEN {} ELSE {Head(s)} \cup Range(Tail(s))

Tokens(lang) ==
    Range(lang.line_comment) \cup Range(lang.block_comment_start)
        \cup Range(lang.block_comment_end)

\* the first character of every token, so that lines hold partial tokens too
TokenHeads(lang) == {<<t[1]>> : t \in {u \in Tokens(lang) : u # <<>>}}

\* the pieces lines are made of: the profile's tokens, their first
\* characters, a code character and a blank
Chunks(lang) == Tokens(lang) \cup TokenHeads(lang) \cup {<<"x">>, <<" ">>}

\* the lines a file of the language may hold
LinesOf(lang) ==
    {Concat(cs) : cs \in UNION {[1..n -> Chunks(lang)] : n \in 0..MaxChunks}}

\* ------------------------------------------------------------ FileStats
\* FileStats::default()
DefaultStats ==
    [files |-> 0, blank_lines |-> 0, comment_lines |-> 0, code_lines |-> 0]

\* Add with one field taken from the right operand alone
AddKeepsOther(self, other) ==
    [files |-> self.files + other.files,
     blank_lines |-> other.blank_lines,
     comment_lines |-> self.comment_lines + other.comment_lines,
     code_lines |-> self.code_lines + other.code_lines]

\* Add with one field taken from the left operand alone
AddLeftBiased(self, other) ==
    [files |-> self.files + other.files,
     blank_lines |-> self.blank_lines + other.blank_lines,
     comment_lines |-> self.comment_lines,
     code_lines |-> self.code_lines + other.code_lines]

\* impl Add for FileStats
Add(self, other) ==
    [files |-> self.files + other.files,
     blank_lines |-> self.blank_lines + other.blank_lines,
     comment_lines |-> self.comment_lines + other.comment_lines,
     code_lines |-> self.code_lines + other.code_lines]

\* the match with an empty Blank arm
TallyNoBlank(st, lt) ==
    CASE lt = "Blank" -> st
      [] lt = "Comment" -> [st EXCEPT !.comment_lines = @ + 1]
      [] lt = "Code" -> [st EXCEPT !.code_lines = @ + 1]

\* the match on line_type of analyze_file
Tally(st, lt) ==
    CASE lt = "Blank" -> [st EXCEPT !.blank_lines = @ + 1]
      [] lt = "Comment" -> [st EXCEPT !.comment_lines = @ + 1]
      [] lt = "Code" -> [st EXCEPT !.code_lines = @ + 1]

\* ------------------------------------------------ classify_line, one pass
\* The locals and the two &mut parameters of classify_line are a record
\*   [remaining, has_code, in_block_comment, current_block_end].

\* the search for the earliest block-comment start: block_start_pos,
\* block_start_len and matching_end after the first for loop
NoBlock == [pos |-> None, len |-> 0, end |-> <<>>]

\* the scan pairing every start token with the first end token of the list
RECURSIVE BlockScanFromFirstEnd(_, _, _, _)
BlockScanFromFirstEnd(lang, remaining, i, acc) ==
    IF i > Len(lang.block_comment_start) THEN acc
    ELSE LET start == lang.block_comment_start[i]
             pos == Find(remaining, start)
             next ==
                 IF pos # None /\ (acc.pos = None \/ pos < acc.pos)
                 THEN [pos |-> pos, len |-> Len(start),
                       end |-> IF 1 <= Len(lang.block_comment_end)
                               THEN lang.block_comment_end[1] ELSE <<>>]
                 ELSE acc
         IN  BlockScanFromFirstEnd(lang, remaining, i + 1, next)

RECURSIVE BlockScanFrom(_, _, _, _)
BlockScanFrom(lang, remaining, i, acc) ==
    IF i > Len(lang.block_comment_start) THEN acc
    ELSE LET start == lang.block_comment_start[i]
             pos == Find(remaining, start)
             next ==
                 IF pos # None /\ (acc.pos = None \/ pos < acc.pos)
                 THEN [pos |-> pos, len |-> Len(start),
                       end |-> IF i <= Len(lang.block_comment_end)
                               THEN lang.block_comment_end[i] ELSE <<>>]
                 ELSE acc
         IN  BlockScanFrom(lang, remaining, i + 1, next)

BlockScan(lang, remaining) == BlockScanFrom(lang, remaining, 1, NoBlock)

\* the search for the earliest line-comment token: line_comment_pos
RECURSIVE LineScanFrom(_, _, _, _)
LineScanFrom(lang, remaining, i, acc) ==
    IF i > Len(lang.line_comment) THEN acc
    ELSE LET pos == Find(remaining, lang.line_comment[i])
             next == IF pos # None /\ (acc = None \/ pos < acc) THEN pos ELSE acc
         IN  LineScanFrom(lang, remaining, i + 1, next)

LineCommentPos(lang, remaining) == LineScanFrom(lang, remaining, 1, None)

\* the first arm without its guard: a block start wins wherever it is
BlockFirstGuardAlways(block_pos, line_pos) ==
    block_pos # None /\ line_pos # None

\* the guard with < for <=
BlockFirstGuardStrict(block_pos, line_pos) ==
    block_pos # None /\ line_pos # None /\ block_pos < line_pos

\* the guard of the first match arm
BlockFirstGuard(block_pos, line_pos) ==
    block_pos # None /\ line_pos # None /\ block_pos <= line_pos

\* which branch one pass of the loop takes
Arm(lang, c) ==
    IF c.in_block_comment
    THEN IF Find(c.remaining, c.current_block_end) # None
         THEN "close" ELSE "in_block_return"
    ELSE LET b == BlockScan(lang, c.remaining).pos
             l == LineCommentPos(lang, c.remaining)
         IN  CASE BlockFirstGuard(b, l) -> "block_first"
               [] b # None /\ l = None -> "only_block"
               [] l # None -> "line_comment"
               [] OTHER -> "no_comment"

\* the block end is skipped and the flag reset, the awaited token is kept
CloseBlockKeepsEnd(c) ==
    LET end_pos == Find(c.remaining, c.current_block_end)
    IN  [c EXCEPT !.remaining = From(@, end_pos + Len(c.current_block_end)),
                  !.in_block_comment = FALSE]

\* the block end is skipped but the state is not reset
CloseBlockKeepsState(c) ==
    LET end_pos == Find(c.remaining, c.current_block_end)
    IN  [c EXCEPT !.remaining = From(@, end_pos + Len(c.current_block_end))]

\* block end found: skip it, leave the block comment, continue
CloseBlock(c) ==
    LET end_pos == Find(c.remaining, c.current_block_end)
    IN  [c EXCEPT !.remaining = From(@, end_pos + Len(c.current_block_end)),
                  !.in_block_comment = FALSE,
                  !.current_block_end = <<>>]

\* the block is opened without skipping its start token
OpenBlockNoAdvance(lang, c) ==
    LET b == BlockScan(lang, c.remaining)
    IN  [remaining |-> From(c.remaining, b.pos),
         has_code |-> c.has_code
             \/ (b.pos > 0 /\ ~TrimIsEmpty(UpTo(c.remaining, b.pos))),
         in_block_comment |-> TRUE,
         current_block_end |-> b.end]

\* the block is opened without looking at the text before its start token
OpenBlockNoCode(lang, c) ==
    LET b == BlockScan(lang, c.remaining)
    IN  [remaining |-> From(c.remaining, b.pos + b.len),
         has_code |-> c.has_code,
         in_block_comment |-> TRUE,
         current_block_end |-> b.end]

\* the body shared by the two arms that open a block comment
OpenBlock(lang, c) ==
    LET b == BlockScan(lang, c.remaining)
    IN  [remaining |-> From(c.remaining, b.pos + b.len),
         has_code |-> c.has_code
             \/ (b.pos > 0 /\ ~TrimIsEmpty(UpTo(c.remaining, b.pos))),
         in_block_comment |-> TRUE,
         current_block_end |-> b.end]

\* has_code after the line-comment arm
LineCommentCode(lang, c) ==
    LET line_pos == LineCommentPos(lang, c.remaining)
    IN  c.has_code \/ (line_pos > 0 /\ ~TrimIsEmpty(UpTo(c.remaining, line_pos)))

\* has_code after the arm that finds no comment
NoCommentCode(c) == c.has_code \/ ~TrimIsEmpty(c.remaining)

\* the two results exchanged
CodeOrCommentSwapped(has_code) == IF has_code THEN "Comment" ELSE "Code"

\* return if has_code { Code } else { Comment }
CodeOrComment(has_code) == IF has_code THEN "Code" ELSE "Comment"

\* the statement after the loop
AfterLoopType(c) ==
    IF c.has_code THEN "Code"
    ELSE IF TrimIsEmpty(c.remaining) THEN "Blank" ELSE "Code"

\* classify_line as a whole: the line type and the state left behind
RECURSIVE ClassifyFrom(_, _)
ClassifyFrom(lang, c) ==
    LET a == Arm(lang, c)
    IN  CASE a = "close" -> ClassifyFrom(lang, CloseBlock(c))
          [] a = "in_block_return" ->
                [type |-> CodeOrComment(c.has_code),
                 in_block_comment |-> c.in_block_comment,
                 current_block_end |-> c.current_block_end]
          [] a \in {"block_first", "only_block"} ->
                ClassifyFrom(lang, OpenBlock(lang, c))
          [] a = "line_comment" ->
                [type |-> CodeOrComment(LineCommentCode(lang, c)),
                 in_block_comment |-> c.in_block_comment,
                 current_block_end |-> c.current_block_end]
          [] OTHER ->
                [type |-> AfterLoopType([c EXCEPT !.has_code = NoCommentCode(c)]),
                 in_block_comment |-> c.in_block_comment,
                 current_block_end |-> c.current_block_end]

ClassifyLine(lang, line, in_block, block_end) ==
    ClassifyFrom(lang, [remaining |-> line, has_code |-> FALSE,
                        in_block_comment |-> in_block,
                        current_block_end |-> block_end])

\* --------------------------------------------- analyze_file, line by line
\* the state analyze_file carries from line to line
FreshAnalysis ==
    [stats |-> [DefaultStats EXCEPT !.files = 1],
     in_block_comment |-> FALSE, current_block_end |-> <<>>]

\* the body of the for loop over reader.lines(), for a line read without error
AnalyzeLine(config, a, l) ==
    LET trimmed == Trim(l)
    IN  IF trimmed = <<>>
        THEN [a EXCEPT !.stats.blank_lines = @ + 1]
        ELSE LET r == ClassifyLine(config, trimmed, a.in_block_comment,
                                   a.current_block_end)
             IN  [stats |-> Tally(a.stats, r.type),
                  in_block_comment |-> r.in_block_comment,
                  current_block_end |-> r.current_block_end]

\* A file on disk: [path, lang, content, fail_at].  content is the sequence
\* of its lines; fail_at = None when every read succeeds, 0 when File::open
\* fails, k >= 1 when reading line k returns an error.
FileOf(path, config, content, fail_at) ==
    [path |-> path, lang |-> config, content |-> content, fail_at |-> fail_at]

X == <<"x">>

\* the files the aggregation is run on
FileCatalog ==
    {FileOf("a.rs", Rust, <<SlashStar \o X, <<>>, X \o StarSlash \o X>>, None),
     FileOf("b.rs", Rust, <<SlashSlash \o X, SlashStar>>, None),
     FileOf("d.py", Python, <<DQ3, X>>, None),
     FileOf("e.rs", Rust, <<X, X>>, 2),
     FileOf("f.py", Python, <<X>>, 0)}

\* a read error that ends the loop and keeps the counts so far
OnReadErrPartial(a) == [tag |-> "Ok", stats |-> a.stats]

\* what a read error makes of the analysis so far: line_result? returns Err
OnReadErr(a) == [tag |-> "Err"]

\* analyze_file run to its end on one file: Ok(stats) or Err
RECURSIVE AnalyzeFrom(_, _, _)
AnalyzeFrom(f, a, k) ==
    IF k > Len(f.content) THEN [tag |-> "Ok", stats |-> a.stats]
    ELSE IF f.fail_at = k THEN OnReadErr(a)
    ELSE AnalyzeFrom(f, AnalyzeLine(f.lang, a, f.content[k]), k + 1)

AnalyzeFile(f) ==
    IF f.fail_at = 0 THEN [tag |-> "Err"] ELSE AnalyzeFrom(f, FreshAnalysis, 1)

\* --------------------------------------------------------- analyze_files
\* HashMap::new()
EmptyMap == [k \in {} |-> DefaultStats]

\* the entry is overwritten instead of added to
FoldEntryOverwrite(acc, name, st) ==
    [k \in DOMAIN acc \cup {name} |-> IF k = name THEN st ELSE acc[k]]

\* the closure of the fold:
\*   *acc.entry(lang).or_default() = acc.get(&lang).cloned().unwrap_or_default() + stats
FoldEntry(acc, name, st) ==
    [k \in DOMAIN acc \cup {name} |->
        IF k = name
        THEN Add(IF name \in DOMAIN acc THEN acc[name] ELSE DefaultStats, st)
        ELSE acc[k]]

\* the match on analyzer.analyze_file(&path) inside filter_map
FilterMapped(name, res) ==
    IF res.tag = "Ok" THEN <<[lang |-> name, stats |-> res.stats]>> ELSE <<>>

\* analyze_files run on one thread, file after file
RECURSIVE CollectSeq(_)
CollectSeq(fs) ==
    IF fs = <<>> THEN <<>>
    ELSE FilterMapped(Head(fs).lang.name, AnalyzeFile(Head(fs))) \o CollectSeq(Tail(fs))

RECURSIVE FoldSeq(_, _)
FoldSeq(acc, rs) ==
    IF rs = <<>> THEN acc
    ELSE FoldSeq(FoldEntry(acc, Head(rs).lang, Head(rs).stats), Tail(rs))

SeqAggregate(fs) == FoldSeq(EmptyMap, CollectSeq(fs))

\* ------------------------------------------------- analyze_file, stepwise
VARIABLES
    lang,               \* self.lang_config of the FileAnalyzer
    pc,                 \* position in analyze_file / classify_line
    stats,              \* let mut stats
    in_block_comment,   \* let mut in_block_comment
    current_block_end,  \* let mut current_block_end
    line,               \* the line yielded by reader.lines()
    remaining,          \* classify_line: let mut remaining
    has_code,           \* classify_line: let mut has_code
    line_type,          \* the value classify_line returned
    result,             \* what analyze_file returned
    nread,              \* number of lines reader.lines() has yielded
    counted,            \* the counter incremented for the current line
    start_in_block,     \* in_block_comment when the current line was read
    start_block_end     \* current_block_end when the current line was read

fileVars ==
    <<lang, pc, stats, in_block_comment, current_block_end, line, remaining,
      has_code, line_type, result, nread, counted, start_in_block,
      start_block_end>>

VARIABLES
    files,      \* analyze_files: the argument files
    nworkers,   \* number of threads of the pool
    apc,        \* position in analyze_files
    task,       \* per input index: the run of the filter_map closure
    processed,  \* the AtomicU64 processed
    collected,  \* the Vec collected from the parallel iterator
    acc         \* the HashMap of the fold

aggVars == <<files, nworkers, apc, task, processed, collected, acc>>

VARIABLES
    operands,   \* FileStats values a, b, c handed to Add
    sums        \* the sums computed from them

addVars == <<operands, sums>>

VARIABLES
    cli,        \* main: the parsed command line
    todo,       \* collect_files: entries WalkDir has still to yield
    at,         \* collect_files: path of the entry WalkDir yielded last
    found,      \* collect_files: the Vec files
    scanned,    \* collect_files: the AtomicU64 processed_files
    cpc         \* position in main / collect_files

collectVars == <<cli, todo, at, found, scanned, cpc>>

otherVars == <<addVars, collectVars>>

vars == <<fileVars, aggVars, otherVars>>

\* no sum is being computed
AddIdle ==
    /\ operands = <<>>
    /\ sums = <<>>

\* main is not running
CollectIdle ==
    /\ cli = <<>>
    /\ todo = {}
    /\ at = <<>>
    /\ found = <<>>
    /\ scanned = 0
    /\ cpc = "idle"

\* analyze_files is not running
AggIdle ==
    /\ files = <<>>
    /\ nworkers = 0
    /\ apc = "idle"
    /\ task = <<>>
    /\ processed = 0
    /\ collected = <<>>
    /\ acc = EmptyMap

\* the locals of classify_line as one record
Cur ==
    [remaining |-> remaining, has_code |-> has_code,
     in_block_comment |-> in_block_comment,
     current_block_end |-> current_block_end]

NoResult == [tag |-> "None"]
Ok(st) == [tag |-> "Ok", stats |-> st]
Err == [tag |-> "Err"]

InitFile(profiles) ==
    /\ lang \in profiles
    /\ pc = "open"
    /\ stats = DefaultStats
    /\ in_block_comment = FALSE
    /\ current_block_end = <<>>
    /\ line = <<>>
    /\ remaining = <<>>
    /\ has_code = FALSE
    /\ line_type = "none"
    /\ result = NoResult
    /\ nread = 0
    /\ counted = "none"
    /\ start_in_block = FALSE
    /\ start_block_end = <<>>
    /\ AggIdle
    /\ AddIdle
    /\ CollectIdle

Init == InitFile(Profiles)

\* File::open succeeded; stats, in_block_comment, current_block_end set up
Open ==
    /\ pc = "open"
    /\ pc' = "lines"
    /\ stats' = [DefaultStats EXCEPT !.files = 1]
    /\ in_block_comment' = FALSE
    /\ current_block_end' = <<>>
    /\ UNCHANGED <<otherVars, aggVars, lang, line, remaining, has_code, line_type, result, nread,
                   counted, start_in_block, start_block_end>>

\* File::open(path)? returned the error
OpenErr ==
    /\ pc = "open"
    /\ pc' = "err"
    /\ result' = Err
    /\ UNCHANGED <<otherVars, aggVars, lang, stats, in_block_comment, current_block_end, line,
                   remaining, has_code, line_type, nread, counted,
                   start_in_block, start_block_end>>

\* reader.lines() yields Ok(line)
ReadLine ==
    /\ pc = "lines"
    /\ nread < MaxLines
    /\ \E l \in LinesOf(lang) : line' = l
    /\ nread' = nread + 1
    /\ start_in_block' = in_block_comment
    /\ start_block_end' = current_block_end
    /\ pc' = "got"
    /\ UNCHANGED <<otherVars, aggVars, lang, stats, in_block_comment, current_block_end, remaining,
                   has_code, line_type, result, counted>>

\* reader.lines() yields Err: line_result? returns it, stats is dropped
ReadErr ==
    /\ pc = "lines"
    /\ nread < MaxLines
    /\ pc' = "err"
    /\ result' = Err
    /\ UNCHANGED <<otherVars, aggVars, lang, stats, in_block_comment, current_block_end, line,
                   remaining, has_code, line_type, nread, counted,
                   start_in_block, start_block_end>>

\* reader.lines() is exhausted: Ok(stats)
EndOfFile ==
    /\ pc = "lines"
    /\ pc' = "done"
    /\ result' = Ok(stats)
    /\ UNCHANGED <<otherVars, aggVars, lang, stats, in_block_comment, current_block_end, line,
                   remaining, has_code, line_type, nread, counted,
                   start_in_block, start_block_end>>

\* the blank shortcut leaving the block comment
BlankLineResets ==
    /\ pc = "got"
    /\ TrimIsEmpty(line)
    /\ stats' = [stats EXCEPT !.blank_lines = @ + 1]
    /\ counted' = "Blank"
    /\ pc' = "counted"
    /\ in_block_comment' = FALSE
    /\ current_block_end' = <<>>
    /\ UNCHANGED <<otherVars, aggVars, lang, line, remaining,
                   has_code, line_type, result, nread, start_in_block,
                   start_block_end>>

\* the blank shortcut incrementing the wrong counter
BlankLineMiscounted ==
    /\ pc = "got"
    /\ TrimIsEmpty(line)
    /\ stats' = [stats EXCEPT !.code_lines = @ + 1]
    /\ counted' = "Code"
    /\ pc' = "counted"
    /\ UNCHANGED <<otherVars, aggVars, lang, in_block_comment, current_block_end, line,
                   remaining, has_code, line_type, result, nread,
                   start_in_block, start_block_end>>

\* trimmed.is_empty(): blank_lines += 1; continue
BlankLine ==
    /\ pc = "got"
    /\ TrimIsEmpty(line)
    /\ stats' = [stats EXCEPT !.blank_lines = @ + 1]
    /\ counted' = "Blank"
    /\ pc' = "counted"
    /\ UNCHANGED <<otherVars, aggVars, lang, in_block_comment, current_block_end, line, remaining,
                   has_code, line_type, result, nread, start_in_block,
                   start_block_end>>

\* self.classify_line(trimmed, ...) is entered
CallClassify ==
    /\ pc = "got"
    /\ ~TrimIsEmpty(line)
    /\ remaining' = Trim(line)
    /\ has_code' = FALSE
    /\ pc' = "loop"
    /\ UNCHANGED <<otherVars, aggVars, lang, stats, in_block_comment, current_block_end, line,
                   line_type, result, nread, counted, start_in_block,
                   start_block_end>>

\* one pass of the loop that goes round again with new locals
LoopTo(c) ==
    /\ remaining' = c.remaining
    /\ has_code' = c.has_code
    /\ in_block_comment' = c.in_block_comment
    /\ current_block_end' = c.current_block_end
    /\ pc' = "loop"
    /\ UNCHANGED <<otherVars, aggVars, lang, stats, line, line_type, result, nread, counted,
                   start_in_block, start_block_end>>

\* a return from inside the loop
ReturnWith(code) ==
    /\ has_code' = code
    /\ line_type' = CodeOrComment(code)
    /\ pc' = "ret"
    /\ UNCHANGED <<otherVars, aggVars, lang, stats, in_block_comment, current_block_end, line,
                   remaining, result, nread, counted, start_in_block,
                   start_block_end>>

InBlockClose == pc = "loop" /\ Arm(lang, Cur) = "close" /\ LoopTo(CloseBlock(Cur))

InBlockReturn ==
    pc = "loop" /\ Arm(lang, Cur) = "in_block_return" /\ ReturnWith(has_code)

BlockFirst ==
    pc = "loop" /\ Arm(lang, Cur) = "block_first" /\ LoopTo(OpenBlock(lang, Cur))

OnlyBlock ==
    pc = "loop" /\ Arm(lang, Cur) = "only_block" /\ LoopTo(OpenBlock(lang, Cur))

LineComment ==
    /\ pc = "loop"
    /\ Arm(lang, Cur) = "line_comment"
    /\ ReturnWith(LineCommentCode(lang, Cur))

\* no comment token: has_code is updated and the loop is left by break
NoComment ==
    /\ pc = "loop"
    /\ Arm(lang, Cur) = "no_comment"
    /\ has_code' = NoCommentCode(Cur)
    /\ pc' = "after"
    /\ UNCHANGED <<otherVars, aggVars, lang, stats, in_block_comment, current_block_end, line,
                   remaining, line_type, result, nread, counted,
                   start_in_block, start_block_end>>

\* the if / else if / else after the loop
AfterLoop ==
    /\ pc = "after"
    /\ line_type' = AfterLoopType(Cur)
    /\ pc' = "ret"
    /\ UNCHANGED <<otherVars, aggVars, lang, stats, in_block_comment, current_block_end, line,
                   remaining, has_code, result, nread, counted, start_in_block,
                   start_block_end>>

\* match line_type { ... += 1 }
Count ==
    /\ pc = "ret"
    /\ stats' = Tally(stats, line_type)
    /\ counted' = line_type
    /\ pc' = "counted"
    /\ UNCHANGED <<otherVars, aggVars, lang, in_block_comment, current_block_end, line, remaining,
                   has_code, line_type, result, nread, start_in_block,
                   start_block_end>>

\* end of the for body: the locals of the iteration go out of scope
NextIter ==
    /\ pc = "counted"
    /\ pc' = "lines"
    /\ line' = <<>>
    /\ remaining' = <<>>
    /\ has_code' = FALSE
    /\ line_type' = "none"
    /\ counted' = "none"
    /\ start_in_block' = FALSE
    /\ start_block_end' = <<>>
    /\ UNCHANGED <<otherVars, aggVars, lang, stats, in_block_comment, current_block_end, result,
                   nread>>

Next ==
    \/ Open \/ OpenErr \/ ReadLine \/ ReadErr \/ EndOfFile
    \/ BlankLine \/ CallClassify
    \/ InBlockClose \/ InBlockReturn \/ BlockFirst \/ OnlyBlock
    \/ LineComment \/ NoComment \/ AfterLoop
    \/ Count \/ NextIter

Spec == Init /\ [][Next]_vars

\* analyze_file on a file of a language of the table or of PrefixProfile
InitTie == InitFile({Rust, PrefixProfile})

SpecTie == InitTie /\ [][Next]_vars

\* ------------------------------------------------ analyze_files, stepwise
\* no single-file analysis is being stepped
FileIdle ==
    /\ lang = Rust
    /\ pc = "idle"
    /\ stats = DefaultStats
    /\ in_block_comment = FALSE
    /\ current_block_end = <<>>
    /\ line = <<>>
    /\ remaining = <<>>
    /\ has_code = FALSE
    /\ line_type = "none"
    /\ result = NoResult
    /\ nread = 0
    /\ counted = "none"
    /\ start_in_block = FALSE
    /\ start_block_end = <<>>

\* the argument lists: distinct files, at least one (main returns before
\* analyze_files when collect_files found nothing)
InputLists ==
    {fs \in UNION {[1..n -> FileCatalog] : n \in 1..MaxFiles} :
        \A i, j \in 1..Len(fs) : i # j => fs[i].path # fs[j].path}

QueuedTask == [pc |-> "queued", idx |-> 0, a |-> FreshAnalysis, out |-> <<>>]

InitAgg ==
    /\ FileIdle
    /\ AddIdle
    /\ CollectIdle
    /\ files \in InputLists
    /\ nworkers \in 1..MaxWorkers
    /\ apc = "map"
    /\ task = [i \in 1..Len(files) |-> QueuedTask]
    /\ processed = 0
    /\ collected = <<>>
    /\ acc = EmptyMap

Running == {i \in 1..Len(files) : task[i].pc = "lines"}

\* a thread starting file i in the block-comment state in which a file
\* analysed earlier ended
TaskBeginCarries(i) ==
    LET open == {j \in 1..Len(files) :
                    task[j].pc = "finished" /\ task[j].a.in_block_comment}
        j == CHOOSE k \in open : TRUE
    IN  /\ apc = "map"
        /\ task[i].pc = "queued"
        /\ Cardinality(Running) < nworkers
        /\ files[i].fail_at # 0
        /\ processed' = processed + 1
        /\ task' = [task EXCEPT
                      ![i].pc = "lines",
                      ![i].a = IF open = {} THEN FreshAnalysis
                               ELSE [FreshAnalysis EXCEPT
                                       !.in_block_comment = TRUE,
                                       !.current_block_end = task[j].a.current_block_end]]
        /\ UNCHANGED <<otherVars, fileVars, files, nworkers, apc, collected, acc>>

\* a thread takes file i: processed.fetch_add(1), FileAnalyzer::new,
\* File::open succeeds
TaskBegin(i) ==
    /\ apc = "map"
    /\ task[i].pc = "queued"
    /\ Cardinality(Running) < nworkers
    /\ files[i].fail_at # 0
    /\ processed' = processed + 1
    /\ task' = [task EXCEPT ![i].pc = "lines", ![i].a = FreshAnalysis]
    /\ UNCHANGED <<otherVars, fileVars, files, nworkers, apc, collected, acc>>

\* a thread takes file i and File::open fails: the closure returns None
TaskBeginErr(i) ==
    /\ apc = "map"
    /\ task[i].pc = "queued"
    /\ Cardinality(Running) < nworkers
    /\ files[i].fail_at = 0
    /\ processed' = processed + 1
    /\ task' = [task EXCEPT ![i].pc = "finished",
                            ![i].out = FilterMapped(files[i].lang.name, [tag |-> "Err"])]
    /\ UNCHANGED <<otherVars, fileVars, files, nworkers, apc, collected, acc>>

\* the next line of file i is read and counted
TaskLine(i) ==
    /\ apc = "map"
    /\ task[i].pc = "lines"
    /\ task[i].idx < Len(files[i].content)
    /\ files[i].fail_at # task[i].idx + 1
    /\ task' = [task EXCEPT
                  ![i].idx = @ + 1,
                  ![i].a = AnalyzeLine(files[i].lang, @,
                                       files[i].content[task[i].idx + 1])]
    /\ UNCHANGED <<otherVars, fileVars, files, nworkers, apc, processed, collected, acc>>

\* reading the next line of file i fails: the closure returns None
TaskReadErr(i) ==
    /\ apc = "map"
    /\ task[i].pc = "lines"
    /\ task[i].idx < Len(files[i].content)
    /\ files[i].fail_at = task[i].idx + 1
    /\ task' = [task EXCEPT
                  ![i].pc = "finished",
                  ![i].out = FilterMapped(files[i].lang.name, OnReadErr(task[i].a))]
    /\ UNCHANGED <<otherVars, fileVars, files, nworkers, apc, processed, collected, acc>>

\* the closure of file i adding its result to the map itself
TaskEndMerges(i) ==
    /\ apc = "map"
    /\ task[i].pc = "lines"
    /\ task[i].idx = Len(files[i].content)
    /\ task' = [task EXCEPT
                  ![i].pc = "finished",
                  ![i].out = FilterMapped(files[i].lang.name,
                                          [tag |-> "Ok", stats |-> task[i].a.stats])]
    /\ acc' = FoldEntry(acc, files[i].lang.name, task[i].a.stats)
    /\ UNCHANGED <<otherVars, fileVars, files, nworkers, apc, processed, collected>>

\* file i is read to its end: the closure returns Some((name, stats))
TaskEnd(i) ==
    /\ apc = "map"
    /\ task[i].pc = "lines"
    /\ task[i].idx = Len(files[i].content)
    /\ task' = [task EXCEPT
                  ![i].pc = "finished",
                  ![i].out = FilterMapped(files[i].lang.name,
                                          [tag |-> "Ok", stats |-> task[i].a.stats])]
    /\ UNCHANGED <<otherVars, fileVars, files, nworkers, apc, processed, collected, acc>>

\* the outputs of the closures in the order of the input
RECURSIVE InOrder(_, _)
InOrder(t, i) == IF i > Len(t) THEN <<>> ELSE t[i].out \o InOrder(t, i + 1)

\* collect::<Vec<_>>() returns once every closure has returned
Collect ==
    /\ apc = "map"
    /\ \A i \in 1..Len(files) : task[i].pc = "finished"
    /\ collected' = InOrder(task, 1)
    /\ apc' = "fold"
    /\ UNCHANGED <<otherVars, fileVars, files, nworkers, task, processed, acc>>

\* one call of the fold closure
FoldStep ==
    /\ apc = "fold"
    /\ collected # <<>>
    /\ acc' = FoldEntry(acc, Head(collected).lang, Head(collected).stats)
    /\ collected' = Tail(collected)
    /\ UNCHANGED <<otherVars, fileVars, files, nworkers, apc, task, processed>>

\* the fold returns acc
FoldEnd ==
    /\ apc = "fold"
    /\ collected = <<>>
    /\ apc' = "done"
    /\ UNCHANGED <<otherVars, fileVars, files, nworkers, task, processed, collected, acc>>

NextAgg ==
    \/ \E i \in 1..Len(files) : TaskBegin(i)
    \/ \E i \in 1..Len(files) : TaskBeginErr(i)
    \/ \E i \in 1..Len(files) : TaskLine(i)
    \/ \E i \in 1..Len(files) : TaskReadErr(i)
    \/ \E i \in 1..Len(files) : TaskEnd(i)
    \/ Collect \/ FoldStep \/ FoldEnd

SpecAgg == InitAgg /\ [][NextAgg]_vars

\* ------------------------------------------------------ Add, applied
\* the FileStats values with counters up to MaxCount
StatsValues ==
    [files : 0..MaxCount, blank_lines : 0..MaxCount,
     comment_lines : 0..MaxCount, code_lines : 0..MaxCount]

InitAdd ==
    /\ FileIdle
    /\ AggIdle
    /\ CollectIdle
    /\ operands \in [a : StatsValues, b : StatsValues, c : StatsValues]
    /\ sums = [stage |-> 0]

\* a + b, b + a, a + default, default + a
AddPairs ==
    /\ sums.stage = 0
    /\ sums' = [stage |-> 1,
                ab |-> Add(operands.a, operands.b),
                ba |-> Add(operands.b, operands.a),
                a0 |-> Add(operands.a, DefaultStats),
                za |-> Add(DefaultStats, operands.a),
                bc |-> Add(operands.b, operands.c)]
    /\ UNCHANGED <<fileVars, aggVars, collectVars, operands>>

\* (a + b) + c and a + (b + c)
AddTriples ==
    /\ sums.stage = 1
    /\ sums' = [stage |-> 2,
                ab |-> sums.ab, ba |-> sums.ba, a0 |-> sums.a0,
                za |-> sums.za, bc |-> sums.bc,
                ab_c |-> Add(sums.ab, operands.c),
                a_bc |-> Add(operands.a, sums.bc)]
    /\ UNCHANGED <<fileVars, aggVars, collectVars, operands>>

NextAdd == AddPairs \/ AddTriples

SpecAdd == InitAdd /\ [][NextAdd]_vars

\* ------------------------------ main, collect_files, should_skip_path
\* A path is the sequence of its components, a component a string.
UpperCase == <<"A", "B", "C", "D", "E", "F", "G", "H", "I", "J", "K", "L", "M", "N", "O", "P", "Q", "R", "S", "T", "U", "V", "W", "X", "Y", "Z">>
LowerCase == <<"a", "b", "c", "d", "e", "f", "g", "h", "i", "j", "k", "l", "m", "n", "o", "p", "q", "r", "s", "t", "u", "v", "w", "x", "y", "z">>

\* str::to_lowercase
ToLowercase(s) ==
    [k \in 1..Len(s) |->
        IF \E n \in 1..Len(UpperCase) : UpperCase[n] = s[k]
        THEN LowerCase[CHOOSE n \in 1..Len(UpperCase) : UpperCase[n] = s[k]]
        ELSE s[k]]

skip_dirs ==
    {<<"t", "a", "r", "g", "e", "t">>,
     <<"n", "o", "d", "e", "_", "m", "o", "d", "u", "l", "e", "s">>,
     <<".", "g", "i", "t">>,
     <<".", "s", "v", "n">>,
     <<".", "h", "g">>,
     <<"b", "u", "i", "l", "d">>,
     <<"d", "i", "s", "t">>,
     <<"o", "u", "t">>,
     <<"b", "i", "n">>,
     <<"o", "b", "j">>,
     <<".", "v", "s">>,
     <<".", "v", "s", "c", "o", "d", "e">>,
     <<"_", "_", "p", "y", "c", "a", "c", "h", "e", "_", "_">>,
     <<".", "p", "y", "t", "e", "s", "t", "_", "c", "a", "c", "h", "e">>,
     <<".", "m", "y", "p", "y", "_", "c", "a", "c", "h", "e">>,
     <<"v", "e", "n", "d", "o", "r">>,
     <<"d", "e", "p", "s">>,
     <<".", "i", "d", "e", "a">>,
     <<".", "g", "r", "a", "d", "l", "e">>}

\* Path::file_name: the last component unless it is . or ..
HasFileName(path) ==
    path # <<>> /\ path[Len(path)] \notin {<<".">>, <<".", ".">>}

FileName(path) == path[Len(path)]

\* should_skip_path
ShouldSkipPath(path) ==
    \/ \E k \in 1..Len(path) : ToLowercase(path[k]) \in skip_dirs
    \/ /\ HasFileName(path)
       /\ Head(FileName(path)) = "."
       /\ Len(FileName(path)) > 1

\* Path::extension: the part of the file name after its last dot, when the
\* name has a dot that is not its first character
LastDot(name) ==
    LET ds == {k \in 1..Len(name) : name[k] = "."}
    IN  IF ds = {} THEN 0 ELSE CHOOSE k \in ds : \A j \in ds : j <= k

HasExtension(path) == HasFileName(path) /\ LastDot(FileName(path)) > 1

Extension(path) ==
    SubSeq(FileName(path), LastDot(FileName(path)) + 1, Len(FileName(path)))

\* the extensions of the profiles, in the order of add_languages
extensions ==
    <<<<Rust, {<<"r", "s">>}>>,
      <<CCpp, {<<"c">>, <<"c", "p", "p">>, <<"c", "c">>, <<"c", "x", "x">>, <<"h">>, <<"h", "p", "p">>}>>,
      <<Python, {<<"p", "y">>, <<"p", "y", "w">>}>>,
      <<JavaScript, {<<"j", "s">>, <<"j", "s", "x">>, <<"m", "j", "s">>}>>,
      <<TypeScript, {<<"t", "s">>, <<"t", "s", "x">>}>>,
      <<Java, {<<"j", "a", "v", "a">>}>>,
      <<CSharp, {<<"c", "s">>}>>,
      <<Go, {<<"g", "o">>}>>,
      <<Shell, {<<"s", "h">>, <<"b", "a", "s", "h">>, <<"z", "s", "h">>}>>,
      <<PowerShell, {<<"p", "s", "1">>, <<"p", "s", "m", "1">>, <<"p", "s", "d", "1">>}>>,
      <<HTML, {<<"h", "t", "m", "l">>, <<"h", "t", "m">>, <<"x", "m", "l">>}>>,
      <<CSS, {<<"c", "s", "s">>}>>,
      <<SQL, {<<"s", "q", "l">>}>>,
      <<Ruby, {<<"r", "b">>}>>,
      <<PHP, {<<"p", "h", "p">>}>>,
      <<YAML, {<<"y", "a", "m", "l">>, <<"y", "m", "l">>}>>,
      <<JSON, {<<"j", "s", "o", "n">>}>>,
      <<Markdown, {<<"m", "d">>, <<"m", "a", "r", "k", "d", "o", "w", "n">>}>>>>

\* LanguageDatabase.ext_to_lang as the set of its (extension, profile) pairs
ext_to_lang ==
    UNION {{<<x, p[1]>> : x \in p[2]} : p \in Range(extensions)}

\* LanguageDatabase::get_language: the Option as a set of at most one profile
GetLanguage(path) ==
    IF ~HasExtension(path) THEN {}
    ELSE {p[2] : p \in {q \in ext_to_lang : q[1] = ToLowercase(Extension(path))}}

\* the files a walked tree may hold, relative to the root
TreeCatalog ==
    {<<<<"a", ".", "r", "s">>>>,
     <<<<"g", "e", "n">>, <<"a", ".", "r", "s">>>>,
     <<<<"g", "e", "n">>, <<"s", "u", "b">>, <<"b", ".", "p", "y">>>>,
     <<<<"l", "i", "b">>, <<"c", ".", "R", "S">>>>,
     <<<<".", "h", "i", "d", "d", "e", "n">>, <<"a", ".", "r", "s">>>>,
     <<<<".", "g", "i", "t">>, <<"a", ".", "r", "s">>>>,
     <<<<".", "e", "n", "v", ".", "r", "s">>>>,
     <<<<"T", "a", "r", "g", "e", "t">>, <<"a", ".", "p", "y">>>>,
     <<<<"s", "r", "c">>, <<"b", "u", "i", "l", "d">>, <<"a", ".", "p", "y">>>>,
     <<<<"n", "o", "t", "e", "s", ".", "t", "x", "t">>>>,
     <<<<"M", "a", "k", "e", "f", "i", "l", "e">>>>}

\* the PATH argument
Roots == {<<<<".">>>>, <<<<"w", "o", "r", "k">>>>}

\* the values of --exclude-dirs: the Option as a set of at most one string
ExcludeArgs == {{}, {<<"g", "e", "n">>}, {<<"g", "e", "n", ",", "l", "i", "b">>}}

CommandLines == [path : Roots, exclude_dirs : ExcludeArgs]

\* the content of every file of the tree: one line of code
TreeContent == <<X>>

\* the entries WalkDir yields for the tree: the root, the directories and
\* the files
EntriesOf(root, tree) ==
    {[path |-> root, is_file |-> FALSE]} \cup
    UNION {{[path |-> root \o SubSeq(rel, 1, k), is_file |-> k = Len(rel)] :
              k \in 1..Len(rel)} : rel \in tree}

InitCollect ==
    /\ FileIdle
    /\ AggIdle
    /\ AddIdle
    /\ cli \in CommandLines
    /\ \E tree \in {t \in SUBSET TreeCatalog : Cardinality(t) <= MaxEntries} :
          todo = EntriesOf(cli.path, tree)
    /\ at = <<>>
    /\ found = <<>>
    /\ scanned = 0
    /\ cpc = "main"

\* main: get_matches, get_one("path"), LanguageDatabase::new, and the call
\* of collect_files up to WalkDir::new(path).into_iter()
Start ==
    /\ cpc = "main"
    /\ cpc' = "walk"
    /\ UNCHANGED <<fileVars, aggVars, addVars, cli, todo, at, found, scanned>>

\* the entries of directory d not yet yielded
Pending(d) == {n \in todo : SubSeq(n.path, 1, Len(n.path) - 1) = d}

\* the entries WalkDir may yield next: the root first, then depth first, a
\* directory before its content, the entries of one directory in any order
Eligible ==
    IF at = <<>> THEN {n \in todo : n.path = cli.path}
    ELSE LET ds == {k \in 1..Len(at) : Pending(SubSeq(at, 1, k)) # {}}
         IN  IF ds = {} THEN {}
             ELSE Pending(SubSeq(at, 1, CHOOSE k \in ds : \A j \in ds : j <= k))

\* the entry is dropped by one of the filters
Dropped(n) ==
    /\ todo' = todo \ {n}
    /\ at' = n.path
    /\ UNCHANGED <<fileVars, aggVars, addVars, cli, found, cpc>>

\* .filter(|entry| entry.file_type().is_file()) drops a directory
YieldDir ==
    /\ cpc = "walk"
    /\ \E n \in Eligible :
          /\ ~n.is_file
          /\ Dropped(n)
          /\ UNCHANGED scanned

\* .filter(|entry| !should_skip_path(entry.path())) drops a file
YieldSkipped ==
    /\ cpc = "walk"
    /\ \E n \in Eligible :
          /\ n.is_file
          /\ ShouldSkipPath(n.path)
          /\ Dropped(n)
          /\ UNCHANGED scanned

\* the filter_map closure: fetch_add, get_language returns None
YieldUnsupported ==
    /\ cpc = "walk"
    /\ \E n \in Eligible :
          /\ n.is_file
          /\ ~ShouldSkipPath(n.path)
          /\ GetLanguage(n.path) = {}
          /\ scanned' = scanned + 1
          /\ Dropped(n)

\* the filter_map closure: fetch_add, get_language returns the profile
YieldSupported ==
    /\ cpc = "walk"
    /\ \E n \in Eligible :
          /\ n.is_file
          /\ ~ShouldSkipPath(n.path)
          /\ \E config \in GetLanguage(n.path) :
                found' = Append(found, <<n.path, config>>)
          /\ scanned' = scanned + 1
          /\ todo' = todo \ {n}
          /\ at' = n.path
          /\ UNCHANGED <<fileVars, aggVars, addVars, cli, cpc>>

\* the iterator is exhausted: collect() and the return of files
WalkEnd ==
    /\ cpc = "walk"
    /\ todo = {}
    /\ cpc' = "collected"
    /\ UNCHANGED <<fileVars, aggVars, addVars, cli, todo, at, found, scanned>>

\* main: files.is_empty(), return
MainEmpty ==
    /\ cpc = "collected"
    /\ found = <<>>
    /\ cpc' = "done"
    /\ UNCHANGED <<fileVars, aggVars, addVars, cli, todo, at, found, scanned>>

\* main: analyze_files(files), whose result does not depend on the schedule
MainAnalyze ==
    /\ cpc = "collected"
    /\ found # <<>>
    /\ files' = [k \in 1..Len(found) |->
                    FileOf(found[k][1], found[k][2], TreeContent, None)]
    /\ processed' = Len(found)
    /\ acc' = SeqAggregate(files')
    /\ apc' = "done"
    /\ cpc' = "done"
    /\ UNCHANGED <<fileVars, addVars, nworkers, task, collected, cli, todo, at,
                   found, scanned>>

NextCollect ==
    \/ Start
    \/ YieldDir \/ YieldSkipped \/ YieldUnsupported \/ YieldSupported
    \/ WalkEnd \/ MainEmpty \/ MainAnalyze

SpecCollect == InitCollect /\ [][NextCollect]_vars

\* ====================================================== checked properties
\* ---- helpers of the properties
\* the parts of a comma-separated list
RECURSIVE SplitComma(_)
SplitComma(s) ==
    LET p == Find(s, <<",">>)
    IN  IF p = None THEN {s} ELSE {UpTo(s, p)} \cup SplitComma(From(s, p + 1))

\* the directory names given with --exclude-dirs
Excluded == UNION {SplitComma(v) : v \in cli.exclude_dirs}

\* the names of the directories below the traversal root on the way to path
DirsAbove(path) ==
    {path[k] : k \in (Len(cli.path) + 1)..(Len(path) - 1)}

\* the paths collect_files has collected
FoundPaths == {found[k][1] : k \in 1..Len(found)}

Sum3(st) == st.blank_lines + st.comment_lines + st.code_lines

\* line.trim() of the current line
Trimmed == Trim(line)

\* smallest offset at which a token of toks occurs in s, or None
FirstOf(toks, s) ==
    LET ps == {Find(s, t) : t \in toks} \ {None}
    IN  IF ps = {} THEN None ELSE Min(ps)

LineToks(config) == Range(config.line_comment)
StartToks(config) == Range(config.block_comment_start)

\* the (start, end) pairs of a profile
Pairs(config) ==
    {<<config.block_comment_start[i], config.block_comment_end[i]>> :
        i \in 1..Len(config.block_comment_start)}

LanguageNames == {l.name : l \in Languages}

\* the input with its files in another order
Permuted(fs, p) == [i \in 1..Len(fs) |-> fs[p[i]]]

\* every read of the file succeeds
Readable(f) == f.fail_at = None

\* indices of the input files of language L whose analysis succeeds
Succeeded(L) ==
    {i \in 1..Len(files) : files[i].lang.name = L /\ Readable(files[i])}

\* sum of one counter of the FileStats of the files with index in S
RECURSIVE SumOver(_, _)
SumOver(S, field) ==
    IF S = {} THEN 0
    ELSE LET i == CHOOSE j \in S : TRUE
         IN  AnalyzeFile(files[i]).stats[field] + SumOver(S \ {i}, field)

\* C1: whatever the number of threads, the interleaving of the per-file
\* analyses and the order of the input list, analyze_files returns the map
\* that a one-thread run returns on any permutation of the same files.
C1_ScheduleIndependent ==
    apc = "done" =>
        \A p \in Permutations(1..Len(files)) :
            acc = SeqAggregate(Permuted(files, p))

\* C1 witness: a finished run on two threads with the Rust files given in
\* the order b.rs, a.rs and merged into one entry, among three files.
C1_Witness ==
    /\ apc = "done"
    /\ nworkers >= 2
    /\ Len(files) = 3
    /\ files[1].path = "b.rs"
    /\ files[2].path = "a.rs"
    /\ "Rust" \in DOMAIN acc
    /\ acc["Rust"].files = 2

\* C2: when analyze_files has finished, the map has an entry exactly for the
\* languages with a successfully analysed input file, and the entry of L is
\* the component-wise sum of the FileStats of those files (files is their
\* number).
C2_EntryIsSum ==
    apc = "done" =>
        /\ DOMAIN acc = {L \in LanguageNames : Succeeded(L) # {}}
        /\ \A L \in DOMAIN acc :
              /\ acc[L].files = Cardinality(Succeeded(L))
              /\ acc[L].files = SumOver(Succeeded(L), "files")
              /\ acc[L].blank_lines = SumOver(Succeeded(L), "blank_lines")
              /\ acc[L].comment_lines = SumOver(Succeeded(L), "comment_lines")
              /\ acc[L].code_lines = SumOver(Succeeded(L), "code_lines")

\* C2 witness: a finished run with two Rust files summed and a Python file
\* that failed, so that Python has no entry.
C2_Witness ==
    /\ apc = "done"
    /\ "Rust" \in DOMAIN acc
    /\ acc["Rust"].files = 2
    /\ acc["Rust"].blank_lines = 1
    /\ acc["Rust"].comment_lines = 3
    /\ \E i \in 1..Len(files) : files[i].lang.name = "Python"
    /\ "Python" \notin DOMAIN acc

\* C4: a file whose analysis fails, at File::open or at a later read, adds
\* nothing to the map: the closure yields no element for it and the result
\* is the one-thread result on the input without the failing files.
C4_FailedFileAddsNothing ==
    /\ \A i \in 1..Len(files) :
          (task[i].pc = "finished" /\ ~Readable(files[i])) => task[i].out = <<>>
    /\ apc = "done" => acc = SeqAggregate(SelectSeq(files, Readable))

\* C4 witness: a finished run with a file that failed after one line was
\* counted, a file that failed to open, and a non-empty result.
C4_Witness ==
    /\ apc = "done"
    /\ \E i \in 1..Len(files) :
          /\ files[i].fail_at = 2
          /\ task[i].idx = 1
          /\ Sum3(task[i].a.stats) = 1
    /\ \E i \in 1..Len(files) : files[i].fail_at = 0
    /\ acc # EmptyMap

\* C3: in analyze_file every line read increments exactly one of the three
\* counters: between lines and at the end blank + comment + code is the
\* number of lines read and files is 1, and Ok carries these stats.
C3_LinesAllCounted ==
    /\ pc \in {"lines", "counted", "done"} =>
          stats.files = 1 /\ Sum3(stats) = nread
    /\ pc \in {"got", "loop", "after", "ret"} =>
          stats.files = 1 /\ Sum3(stats) + 1 = nread
    /\ pc = "counted" => counted \in {"Blank", "Comment", "Code"}
    /\ pc = "done" => result = Ok(stats)

\* C3 witness: a file of two lines analysed to the end, one line counted as
\* comment and one as code.
C3_Witness ==
    /\ pc = "done"
    /\ nread = 2
    /\ result.tag = "Ok"
    /\ result.stats.comment_lines = 1
    /\ result.stats.code_lines = 1

C6_BlankOnlyIfEmpty ==
    pc = "counted" =>
        /\ counted = "Blank" => (TrimIsEmpty(line) /\ ~start_in_block)
        /\ ~TrimIsEmpty(line) => counted \in {"Comment", "Code"}

\* C7: a line that is empty or whitespace-only and is read while no block
\* comment is open is counted as blank, in every profile, and leaves no
\* block comment open.
C7_BlankLine ==
    (pc = "counted" /\ TrimIsEmpty(line) /\ ~start_in_block)
        => counted = "Blank" /\ stats.blank_lines >= 1 /\ ~in_block_comment

\* C7 witness: a whitespace-only line of at least one character read outside
\* a block comment and counted as blank.
C7_Witness ==
    /\ pc = "counted"
    /\ Len(line) >= 1
    /\ TrimIsEmpty(line)
    /\ ~start_in_block
    /\ counted = "Blank"

\* ---- helpers of C8
\* offset of the awaited end token in the trimmed line, or None
EndPos == Find(Trimmed, start_block_end)

\* the text after the first occurrence of the awaited end token
AfterEnd == From(Trimmed, EndPos + Len(start_block_end))

\* the text of s before its first comment token (all of s without one)
PlainPrefix(config, s) ==
    LET p == FirstOf(LineToks(config) \cup StartToks(config), s)
    IN  IF p = None THEN s ELSE UpTo(s, p)

\* a line read outside a block comment that starts with S and has no E
\* after it is a comment line and leaves the state awaiting E
C8_OpeningLine ==
    \A pr \in Pairs(lang) :
        (/\ pc = "counted"
         /\ ~start_in_block
         /\ StartsAt(Trimmed, pr[1], 0)
         /\ Find(From(Trimmed, Len(pr[1])), pr[2]) = None)
            => /\ counted = "Comment"
               /\ in_block_comment
               /\ current_block_end = pr[2]

\* every following line without E is a comment line
C8_EveryInnerLine ==
    (pc = "counted" /\ start_in_block /\ Find(line, start_block_end) = None)
        => counted = "Comment"

\* every following line without E that is not blank is a comment line
C8_NonBlankInnerLine ==
    (/\ pc = "counted"
     /\ start_in_block
     /\ Find(line, start_block_end) = None
     /\ ~TrimIsEmpty(line))
        => counted = "Comment"

\* a following line with E is a code line when non-whitespace text stands
\* between E and the next comment token (or the end of the line)
C8_ClosingLineCode ==
    (/\ pc = "counted"
     /\ start_in_block
     /\ EndPos # None
     /\ ~TrimIsEmpty(PlainPrefix(lang, AfterEnd)))
        => counted = "Code"

\* after a following line with E the state is not-in-block-comment
C8_ClosedAfter ==
    (pc = "counted" /\ start_in_block /\ EndPos # None) => ~in_block_comment

\* the same when no block-comment start occurs after E on the line
C8_ClosedAfterUnlessReopened ==
    (/\ pc = "counted"
     /\ start_in_block
     /\ EndPos # None
     /\ FirstOf(StartToks(lang), AfterEnd) = None)
        => ~in_block_comment /\ current_block_end = <<>>

C9_LineCommentStops ==
    LET lp == FirstOf(LineToks(lang), Trimmed)
        bp == FirstOf(StartToks(lang), Trimmed)
    IN  (/\ pc = "counted"
         /\ ~start_in_block
         /\ lp # None
         /\ (bp = None \/ bp > lp))
            => /\ counted = IF ~TrimIsEmpty(UpTo(Trimmed, lp))
                            THEN "Code" ELSE "Comment"
               /\ ~in_block_comment
               /\ current_block_end = <<>>

\* C9 witness: a counted line with code, then a line-comment token, then a
\* block-comment start, counted as code and leaving no block comment open.
C9_Witness ==
    LET lp == FirstOf(LineToks(lang), Trimmed)
        bp == FirstOf(StartToks(lang), Trimmed)
    IN  /\ pc = "counted"
        /\ ~start_in_block
        /\ lp # None
        /\ lp > 0
        /\ bp # None
        /\ bp > lp
        /\ counted = "Code"
        /\ ~in_block_comment

\* C10: in a pass of the classify_line loop outside a block comment, when
\* the earliest block-comment start (offset bp) and the earliest
\* line-comment token (offset lp) of the remaining text satisfy bp <= lp,
\* bp = lp included, the pass opens the block comment: the state becomes
\* in-block awaiting the end token of a pair whose start matches at bp, and
\* scanning goes on just after that start token.
C10_BlockWinsTie ==
    [][LET lp == FirstOf(LineToks(lang), remaining)
           bp == FirstOf(StartToks(lang), remaining)
       IN  (/\ pc = "loop"
            /\ ~in_block_comment
            /\ bp # None
            /\ lp # None
            /\ bp <= lp)
               => /\ pc' = "loop"
                  /\ in_block_comment'
                  /\ \E pr \in Pairs(lang) :
                        /\ StartsAt(remaining, pr[1], bp)
                        /\ current_block_end' = pr[2]
                        /\ remaining' = From(remaining, bp + Len(pr[1]))]_vars

\* C10 witness: the pass just taken opened a block comment at the offset
\* where the first line-comment token of the line matches too.
C10_Witness ==
    LET lp == FirstOf(LineToks(lang), Trimmed)
        bp == FirstOf(StartToks(lang), Trimmed)
    IN  /\ pc = "loop"
        /\ ~start_in_block
        /\ in_block_comment
        /\ bp # None
        /\ bp = lp
        /\ \E pr \in Pairs(lang) :
              /\ StartsAt(Trimmed, pr[1], bp)
              /\ current_block_end = pr[2]
              /\ remaining = From(Trimmed, bp + Len(pr[1]))

\* C11: FileStats addition is a commutative monoid on counters up to
\* MaxCount: a + b = b + a, (a + b) + c = a + (b + c) and the default value
\* is a neutral element on both sides, each sum being taken field by field.
C11_AddMonoid ==
    /\ sums.stage >= 1 =>
          /\ sums.ab = sums.ba
          /\ sums.a0 = operands.a
          /\ sums.za = operands.a
          /\ \A f \in {"files", "blank_lines", "comment_lines", "code_lines"} :
                sums.ab[f] = operands.a[f] + operands.b[f]
    /\ sums.stage = 2 => sums.ab_c = sums.a_bc

\* C11 witness: the sums of three operands, a and b different and every
\* counter of a + b + c non-zero, have all been computed.
C11_Witness ==
    /\ sums.stage = 2
    /\ operands.a # operands.b
    /\ operands.b # operands.c
    /\ sums.ab_c.files = 3
    /\ sums.ab_c.blank_lines = 2
    /\ sums.ab_c.comment_lines = 1
    /\ sums.ab_c.code_lines = 2

\* the analysis of file f after its first k lines, begun in the fresh state
RECURSIVE AfterLines(_, _)
AfterLines(f, k) ==
    IF k = 0 THEN FreshAnalysis
    ELSE AnalyzeLine(f.lang, AfterLines(f, k - 1), f.content[k])

\* C12: the block-comment state belongs to one file analysis.  Every
\* analysis begins not in a block comment, with an empty awaited token; at
\* each point the counters and the state of a file are those its own first
\* lines give from that fresh state, and its result is the one the file
\* gives when analysed alone, whatever the other files of the run are, in
\* whatever order and interleaving they are analysed and whatever state they
\* ended in.
C12_StatePerFile ==
    \A i \in 1..Len(files) :
        /\ (task[i].pc = "lines" /\ task[i].idx = 0) =>
              /\ ~task[i].a.in_block_comment
              /\ task[i].a.current_block_end = <<>>
        /\ task[i].pc = "lines" => task[i].a = AfterLines(files[i], task[i].idx)
        /\ task[i].pc = "finished" =>
              task[i].out = FilterMapped(files[i].lang.name, AnalyzeFile(files[i]))

\* C12 witness: one file has ended inside an unterminated block comment, a
\* file after it in the input has been analysed to a result with a code
\* line, and a third file is being analysed at the same time.
C12_Witness ==
    \E j, k, m \in 1..Len(files) :
        /\ j < k
        /\ m \notin {j, k}
        /\ task[j].pc = "finished"
        /\ task[j].a.in_block_comment
        /\ task[j].out # <<>>
        /\ task[k].pc = "finished"
        /\ task[k].out # <<>>
        /\ task[k].out[1].stats.code_lines >= 1
        /\ task[m].pc = "lines"
        /\ task[m].idx >= 1

\* C14: classify_line terminates with a line type.  In every profile of the
\* table each token is non-empty and each block start has its end; every
\* pass of the loop returns, breaks, or goes round again with a strictly
\* shorter remaining text; the value returned is Blank, Comment or Code.
C14_LoopTerminates ==
    /\ [][pc = "loop" =>
             \/ pc' \in {"ret", "after"}
             \/ pc' = "loop" /\ Len(remaining') < Len(remaining)]_vars
    /\ [](/\ \A config \in Languages :
                /\ <<>> \notin Tokens(config)
                /\ Len(config.block_comment_start) = Len(config.block_comment_end)
          /\ pc = "ret" =>
                /\ line_type \in {"Blank", "Comment", "Code"}
                /\ Len(remaining) <= Len(Trimmed))

\* C14 witness: the loop is in its third pass at least, a block comment
\* opened and closed, on a text shorter than the line by two tokens.
C14_Witness ==
    /\ pc = "loop"
    /\ ~start_in_block
    /\ ~in_block_comment
    /\ remaining # <<>>
    /\ \E pr \in Pairs(lang) :
          /\ StartsAt(Trimmed, pr[1], 0)
          /\ remaining = From(Trimmed, Len(pr[1]) + Len(pr[2]))

\* C15: a pass that opens a block comment opens it at the earliest offset
\* bp at which a start token of the profile matches, and awaits the end
\* token of the pair whose start matches there.  Inside a block comment
\* awaiting E a pass without E in the remaining text returns with the state
\* unchanged, whatever other tokens the text holds, and a pass with E leaves
\* the block comment just after the first E.
C15_OpenedPairCloses ==
    [][pc = "loop" =>
          LET bp == FirstOf(StartToks(lang), remaining)
              ep == Find(remaining, current_block_end)
          IN  /\ (~in_block_comment /\ in_block_comment') =>
                    /\ bp # None
                    /\ \E pr \in Pairs(lang) :
                          /\ StartsAt(remaining, pr[1], bp)
                          /\ current_block_end' = pr[2]
                          /\ remaining' = From(remaining, bp + Len(pr[1]))
              /\ (in_block_comment /\ ep = None) =>
                    /\ pc' = "ret"
                    /\ in_block_comment'
                    /\ current_block_end' = current_block_end
              /\ (in_block_comment /\ ep # None) =>
                    /\ pc' = "loop"
                    /\ ~in_block_comment'
                    /\ remaining' = From(remaining, ep + Len(current_block_end))]_vars

\* C15 witness: in a profile with two pairs a line begins with the start of
\* one pair and goes on with the end token of the other pair and a
\* line-comment token; it is counted with the block comment still open and
\* awaiting the end of the pair that opened.
C15_Witness ==
    /\ pc = "counted"
    /\ ~start_in_block
    /\ in_block_comment
    /\ \E pr, other \in Pairs(lang) :
          /\ pr # other
          /\ StartsAt(Trimmed, pr[1], 0)
          /\ Find(Trimmed, other[2]) # None
          /\ current_block_end = pr[2]
    /\ FirstOf(LineToks(lang), Trimmed) # None

\* what a line s read in state (inb, e) holds: code is true when
\* non-whitespace text stands outside every comment, in_block and end are
\* the block comment left open at the end of the line
RECURSIVE Scan(_, _, _, _)
Scan(config, s, inb, e) ==
    IF inb
    THEN LET p == Find(s, e)
         IN  IF p = None THEN [code |-> FALSE, in_block |-> TRUE, end |-> e]
             ELSE Scan(config, From(s, p + Len(e)), FALSE, <<>>)
    ELSE LET bp == FirstOf(StartToks(config), s)
             lp == FirstOf(LineToks(config), s)
         IN  IF bp # None /\ (lp = None \/ bp <= lp)
             THEN LET pr == CHOOSE q \in Pairs(config) : StartsAt(s, q[1], bp)
                      rest == Scan(config, From(s, bp + Len(pr[1])), TRUE, pr[2])
                  IN  [rest EXCEPT !.code = @ \/ ~TrimIsEmpty(UpTo(s, bp))]
             ELSE [code |-> ~TrimIsEmpty(IF lp # None THEN UpTo(s, lp) ELSE s),
                   in_block |-> FALSE, end |-> <<>>]

\* C16: a counted line on which a block comment opens and stays open at the
\* end of the line is Code when non-whitespace text outside every comment
\* precedes the opening token and Comment otherwise; after it the analysis
\* is in the block comment and awaits the end token of the pair that opened.
C16_OpeningLine ==
    LET r == Scan(lang, Trimmed, start_in_block, start_block_end)
    IN  (/\ pc = "counted"
         /\ ~TrimIsEmpty(line)
         /\ r.in_block
         /\ (~start_in_block \/ Find(Trimmed, start_block_end) # None))
            => /\ counted = IF r.code THEN "Code" ELSE "Comment"
               /\ in_block_comment
               /\ current_block_end = r.end
               /\ current_block_end \in {pr[2] : pr \in Pairs(lang)}

\* C16 witness: a line with code before a block-comment start and nothing
\* closing it, counted as code and leaving the block comment open.
C16_Witness ==
    /\ pc = "counted"
    /\ ~start_in_block
    /\ FirstOf(StartToks(lang), Trimmed) # None
    /\ FirstOf(StartToks(lang), Trimmed) > 0
    /\ Trimmed[1] = "x"
    /\ counted = "Code"
    /\ in_block_comment

\* C17: the map of the fold is written by the fold alone.  A step that
\* changes the map is a call of the fold closure, taken after collect
\* returned, every closure of the parallel map having returned before, and it
\* changes no per-file analysis; a step of a per-file analysis is taken while
\* the map is still the empty one and leaves it so.
C17_FoldAloneWrites ==
    [][/\ acc' # acc =>
             /\ apc = "fold"
             /\ apc' = "fold"
             /\ task' = task
             /\ \A i \in 1..Len(files) : task[i].pc = "finished"
             /\ collected # <<>>
             /\ collected' = Tail(collected)
       /\ task' # task =>
             /\ apc = "map"
             /\ acc = EmptyMap
             /\ acc' = acc
       /\ (apc = "map" /\ apc' # "map") =>
             \A i \in 1..Len(files) : task[i].pc = "finished"]_vars

\* C17 witness: run on two threads, the fold has merged a first result and
\* has more to merge, every per-file analysis being finished.
C17_Witness ==
    /\ apc = "fold"
    /\ nworkers >= 2
    /\ acc # EmptyMap
    /\ collected # <<>>
    /\ \A i \in 1..Len(files) : task[i].pc = "finished"

\* C18: a counted line read while awaiting E that does not contain E leaves
\* the analysis awaiting the same E, and a counted line read outside a block
\* comment that contains no block-comment start, a blank line included,
\* leaves it outside a block comment.
C18_NoTokenNoChange ==
    pc = "counted" =>
        /\ (start_in_block /\ Find(line, start_block_end) = None) =>
              /\ in_block_comment
              /\ current_block_end = start_block_end
        /\ (~start_in_block /\ FirstOf(StartToks(lang), line) = None) =>
              /\ ~in_block_comment
              /\ current_block_end = <<>>

\* C18 witness: a whitespace-only line read inside a block comment has been
\* counted and the block comment is still open, awaiting the same token.
C18_Witness ==
    /\ pc = "counted"
    /\ start_in_block
    /\ line # <<>>
    /\ TrimIsEmpty(line)
    /\ in_block_comment
    /\ current_block_end = start_block_end
    /\ current_block_end # <<>>

\* C19: between the lines of a file in_block_comment is true exactly when
\* current_block_end is not the empty string, and then current_block_end is
\* one of the end tokens of the profile.
C19_StateAgrees ==
    pc \in {"lines", "got", "counted", "done"} =>
        /\ in_block_comment <=> current_block_end # <<>>
        /\ in_block_comment => current_block_end \in Range(lang.block_comment_end)

\* C19 witness: between two lines the analysis is in a block comment opened
\* by the second pair of its profile, whose end token it awaits.
C19_Witness ==
    /\ pc = "lines"
    /\ nread >= 1
    /\ in_block_comment
    /\ Len(lang.block_comment_end) >= 2
    /\ current_block_end = lang.block_comment_end[2]

\* C13: when --exclude-dirs names directories, no file below a directory
\* of one of these names is collected, and none is counted in the result.
C13_ExcludedNotCollected ==
    /\ \A path \in FoundPaths : DirsAbove(path) \cap Excluded = {}
    /\ cpc = "done" =>
          \A k \in 1..Len(files) : DirsAbove(files[k].path) \cap Excluded = {}

\* C20: no hidden file and no file below a hidden directory is collected: a
\* collected path has no leading dot in its file name, and none in the name
\* of a directory between the traversal root and the file, whether or not
\* that name is in skip_dirs.
C20_HiddenNotCollected ==
    \A path \in FoundPaths :
        /\ Head(FileName(path)) # "."
        /\ \A d \in DirsAbove(path) : Head(d) # "."

====
